---- MODULE Spec2Model ----
(***************************************************************************)
(* A model of src/mcp.py: the MCP23S08 / MCP23S17 SPI GPIO-expander        *)
(* driver.  The driver keeps one shadow buffer per device register and     *)
(* writes whole registers through to the device; the device is modelled    *)
(* as a byte memory addressed the way the driver addresses it (register    *)
(* address, then sequential bytes).                                        *)
(***************************************************************************)
EXTENDS Integers, Sequences, FiniteSets, TLC

VARIABLES
    NUM_GPIO,   \* class attribute of the chip variant: 8 (MCP23S08) or 16 (MCP23S17)
    self,       \* the shadow buffers of the MCP object (iodir, ipol, gppu, ...)
    mem,        \* the device: register address -> byte
    cs,         \* the chip-select line (1 = deselected)
    bus,        \* the transport calls of the last operation, in order
    ret,        \* the last operation: name, arguments, outcome, returned value
    pre,        \* when the last operation was a successful toggle_pins: its pins, the
                \* value register (shadow and device) before it, and the pins of the
                \* successful toggle_pins right before it, if any
    ops,        \* number of operations performed since construction
    frame       \* the local variables of a read_interrupt_gpio call that is followed
                \* statement by statement: where it is, the bytes the for loop has
                \* still to take, i, pin (the value it returns) and second_Byte

vars == <<NUM_GPIO, self, mem, cs, bus, ret, pre, ops, frame>>

(***************************************************************************)
(* Bounds of the model.                                                    *)
(***************************************************************************)
\* operations in one run
MaxOps == 2
\* entries of a pin mapping / pin list handed to a multi-pin operation
MaxPins == 2

(***************************************************************************)
(* Program constants.                                                      *)
(***************************************************************************)
OUT == 0
\* IN (a reserved word of TLA+)
INP == 1
\* default SPI device address, 0x20
address == 32

Byte == 0..255

(***************************************************************************)
(* Register address tables of the two chip variants.                       *)
(***************************************************************************)
IODIR == IF NUM_GPIO = 16 THEN 0 ELSE 0
IPOL == IF NUM_GPIO = 16 THEN 1 ELSE 1
GPIO == IF NUM_GPIO = 16 THEN 18 ELSE 9
GPPU == IF NUM_GPIO = 16 THEN 12 ELSE 6
INTCON == IF NUM_GPIO = 16 THEN 8 ELSE 4
GPINTEN == IF NUM_GPIO = 16 THEN 4 ELSE 2
DEFVAL == IF NUM_GPIO = 16 THEN 6 ELSE 3
IOCON == IF NUM_GPIO = 16 THEN 10 ELSE 5
INTF == IF NUM_GPIO = 16 THEN 14 ELSE 7
INTCAP == IF NUM_GPIO = 16 THEN 16 ELSE 8

\* self.gpio_bytes = self.NUM_GPIO//8
gpio_bytes == NUM_GPIO \div 8

\* bytearray(n): n zero bytes
bytearray(n) == [i \in 1..n |-> 0]

(***************************************************************************)
(* Bit arithmetic on one byte, as Python's |=, &= ~ and ^= with 1 << k.    *)
(***************************************************************************)
Pow2(k) == 2^k

\* (b >> k) & 1
Bit(b, k) == (b \div Pow2(k)) % 2

\* b | (1 << k)
OrBit(b, k) == IF Bit(b, k) = 1 THEN b ELSE b + Pow2(k)

\* b & ~(1 << k)
AndNotBit(b, k) == IF Bit(b, k) = 1 THEN b - Pow2(k) ELSE b

\* b ^ (1 << k)
XorBit(b, k) == IF Bit(b, k) = 1 THEN b - Pow2(k) ELSE b + Pow2(k)

\* int(pin/8) and int(pin%8), for the validated (non-negative) pins they are
\* applied to; sequences are 1-based, so byte index i is element i + 1.
ByteIndex(pin) == pin \div 8
BitIndex(pin) == pin % 8

\* buf[int(pin/8)] raises IndexError when the index is outside the buffer
InRange(buf, pin) == ByteIndex(pin) + 1 \in 1..Len(buf)

\* buf[int(pin/8)] |= 1 << int(pin%8)
SetBit(buf, pin) ==
    [buf EXCEPT ![ByteIndex(pin) + 1] = OrBit(@, BitIndex(pin))]

\* buf[int(pin/8)] &= (1 << int(pin%8)): the complement forgotten
ClearBit_unmasked(buf, pin) ==
    [buf EXCEPT ![ByteIndex(pin) + 1] =
        IF Bit(@, BitIndex(pin)) = 1 THEN Pow2(BitIndex(pin)) ELSE 0]

\* buf[int(pin/8)] &= ~(1 << int(pin%8))
ClearBit(buf, pin) ==
    [buf EXCEPT ![ByteIndex(pin) + 1] = AndNotBit(@, BitIndex(pin))]

\* buf[int(pin/8)] |= 1 << int(pin%8) where the code has ^=
FlipBit_or(buf, pin) ==
    [buf EXCEPT ![ByteIndex(pin) + 1] = OrBit(@, BitIndex(pin))]

\* buf[int(pin/8)] ^= 1 << int(pin%8)
FlipBit(buf, pin) ==
    [buf EXCEPT ![ByteIndex(pin) + 1] = XorBit(@, BitIndex(pin))]

\* (buf[int(pin/8)] & 1 << int(pin%8)) > 0
TestBit(buf, pin) == Bit(buf[ByteIndex(pin) + 1], BitIndex(pin)) = 1

(***************************************************************************)
(* _validate_pin: TRUE when the pin passes, FALSE when ValueError is raised *)
(***************************************************************************)
\* _validate_pin with pin > NUM_GPIO for pin >= NUM_GPIO
validate_pin_off_by_one(pin) == ~(pin < 0 \/ pin > NUM_GPIO)

_validate_pin(pin) == ~(pin < 0 \/ pin >= NUM_GPIO)

(***************************************************************************)
(* The transport.  A transaction is cs(0), three spi calls, cs(1); fault   *)
(* is the index (1..3) of the spi call that raises, anything else: none.   *)
(* The finally clause deselects on every path.                             *)
(***************************************************************************)
Ev(call, data) == [call |-> call, data |-> data]

SpiCalls == 3

Faulty(fault) == fault \in 1..SpiCalls

\* the bytes of the device from a register address on
DevBytes(m, register, length) == [i \in 1..length |-> m[register + i - 1]]

\* the device after data bytes were written from a register address on
\* (sequential access: the address increments per byte)
DevWrite(m, register, data) ==
    [a \in DOMAIN m |->
        IF a \in register..(register + Len(data) - 1)
        THEN data[a - register + 1] ELSE m[a]]

\* writeList without the try/finally: a raising spi call leaves the device selected
writeList_no_finally(m, register, data, fault) ==
    LET calls == << Ev("write", <<address * 2>>),
                    Ev("write", <<register>>),
                    Ev("write", data) >>
    IN  IF Faulty(fault)
        THEN [ mem |-> m,
               bus |-> <<Ev("cs", <<0>>)>> \o SubSeq(calls, 1, fault),
               err |-> "OSError" ]
        ELSE [ mem |-> DevWrite(m, register, data),
               bus |-> <<Ev("cs", <<0>>)>> \o calls \o <<Ev("cs", <<1>>)>>,
               err |-> "" ]

writeList(m, register, data, fault) ==
    LET calls == << Ev("write", <<address * 2>>),
                    Ev("write", <<register>>),
                    Ev("write", data) >>
        done == IF Faulty(fault) THEN fault ELSE SpiCalls
    IN  [ mem |-> IF Faulty(fault) THEN m ELSE DevWrite(m, register, data),
          bus |-> <<Ev("cs", <<0>>)>> \o SubSeq(calls, 1, done) \o <<Ev("cs", <<1>>)>>,
          err |-> IF Faulty(fault) THEN "OSError" ELSE "" ]

\* readList that sends the device-address byte without the read bit
readList_write_opcode(m, register, length, fault) ==
    LET rxdata == DevBytes(m, register, length)
        calls == << Ev("write", <<address * 2>>),
                    Ev("write", <<register>>),
                    Ev("readinto", rxdata) >>
        done == IF Faulty(fault) THEN fault ELSE SpiCalls
    IN  [ data |-> rxdata,
          bus |-> <<Ev("cs", <<0>>)>> \o SubSeq(calls, 1, done) \o <<Ev("cs", <<1>>)>>,
          err |-> IF Faulty(fault) THEN "OSError" ELSE "" ]

readList(m, register, length, fault) ==
    LET rxdata == DevBytes(m, register, length)
        calls == << Ev("write", <<address * 2 + 1>>),
                    Ev("write", <<register>>),
                    Ev("readinto", rxdata) >>
        done == IF Faulty(fault) THEN fault ELSE SpiCalls
    IN  [ data |-> rxdata,
          bus |-> <<Ev("cs", <<0>>)>> \o SubSeq(calls, 1, done) \o <<Ev("cs", <<1>>)>>,
          err |-> IF Faulty(fault) THEN "OSError" ELSE "" ]

\* the chip-select line after the transport calls of a trace
RECURSIVE LineAfter(_, _)
LineAfter(line, trace) ==
    IF trace = <<>> THEN line
    ELSE LineAfter(IF Head(trace).call = "cs" THEN Head(trace).data[1] ELSE line,
                   Tail(trace))

(***************************************************************************)
(* write_<register>(value=None): store the value when one is given, then   *)
(* write the buffered register to the device.  s is the object's buffers,  *)
(* m the device; the result holds both after the call.                     *)
(***************************************************************************)
None == [given |-> FALSE, data |-> <<>>]
Given(data) == [given |-> TRUE, data |-> data]

WriteBuffered(s, m, field, register, value, fault) ==
    LET s2 == IF value.given THEN [s EXCEPT ![field] = value.data] ELSE s
        w == writeList(m, register, s2[field], fault)
    IN  [self |-> s2, mem |-> w.mem, bus |-> w.bus, err |-> w.err]

write_gpio(s, m, value, fault) == WriteBuffered(s, m, "gpio", GPIO, value, fault)
write_iodir(s, m, value, fault) == WriteBuffered(s, m, "iodir", IODIR, value, fault)
write_gppu(s, m, value, fault) == WriteBuffered(s, m, "gppu", GPPU, value, fault)
write_ipol(s, m, value, fault) == WriteBuffered(s, m, "ipol", IPOL, value, fault)
write_intcon(s, m, value, fault) == WriteBuffered(s, m, "intcon", INTCON, value, fault)
write_defval(s, m, value, fault) == WriteBuffered(s, m, "defval", DEFVAL, value, fault)
write_gpinten(s, m, value, fault) == WriteBuffered(s, m, "gpinten", GPINTEN, value, fault)
write_iocon(s, m, value, fault) == WriteBuffered(s, m, "iocon", IOCON, value, fault)

\* self.gpio = self.readList(self.GPIO, self.gpio_bytes)
read_gpio(s, m, fault) ==
    LET r == readList(m, GPIO, gpio_bytes, fault)
    IN  [self |-> IF r.err = "" THEN [s EXCEPT !.gpio = r.data] ELSE s,
         mem |-> m, bus |-> r.bus, err |-> r.err]

(***************************************************************************)
(* The loops over a pin mapping (a sequence of <<pin, value>> in the       *)
(* dict's order) or a pin list.  Each returns the buffer as the loop left  *)
(* it and the exception that ended it ("" when it ran to the end).         *)
(***************************************************************************)
RECURSIVE setup_loop(_, _)
setup_loop(buf, pins) ==
    IF pins = <<>> THEN [buf |-> buf, err |-> ""]
    ELSE LET pin == Head(pins)[1]
             value == Head(pins)[2]
         IN  IF value = INP
             THEN IF InRange(buf, pin)
                  THEN setup_loop(SetBit(buf, pin), Tail(pins))
                  ELSE [buf |-> buf, err |-> "IndexError"]
             ELSE IF value = OUT
             THEN IF InRange(buf, pin)
                  THEN setup_loop(ClearBit(buf, pin), Tail(pins))
                  ELSE [buf |-> buf, err |-> "IndexError"]
             ELSE [buf |-> buf, err |-> "ValueError"]

\* the loop of output_pins, pullup_pins and polarity_pins: value is a boolean
RECURSIVE level_loop(_, _)
level_loop(buf, pins) ==
    IF pins = <<>> THEN [buf |-> buf, err |-> ""]
    ELSE LET pin == Head(pins)[1]
             value == Head(pins)[2]
         IN  IF ~InRange(buf, pin) THEN [buf |-> buf, err |-> "IndexError"]
             ELSE level_loop(IF value THEN SetBit(buf, pin) ELSE ClearBit(buf, pin),
                             Tail(pins))

RECURSIVE toggle_loop(_, _)
toggle_loop(buf, pins) ==
    IF pins = <<>> THEN [buf |-> buf, err |-> ""]
    ELSE IF ~InRange(buf, Head(pins)) THEN [buf |-> buf, err |-> "IndexError"]
    ELSE toggle_loop(FlipBit(buf, Head(pins)), Tail(pins))

\* the pins of a mapping / of a list that _validate_pin rejects
KeysOf(pins) == [i \in 1..Len(pins) |-> pins[i][1]]
AllValid(pinlist) == \A i \in 1..Len(pinlist) : _validate_pin(pinlist[i])

(***************************************************************************)
(* The end of every operation: the new object and device, the transport    *)
(* calls it made, and what it returned or raised.                          *)
(***************************************************************************)
Outcome(err) == IF err = "" THEN "ok" ELSE err

\* pre after an operation that was not a successful toggle_pins
NoToggle == [toggled |-> None, gpio |-> <<>>, GPIO |-> <<>>, prior |-> None]

\* frame when no read_interrupt_gpio call is being followed
NoFrame == [pc |-> "none", rest |-> <<>>, i |-> 0, pin |-> 0, second_Byte |-> FALSE]

\* ret between two calls: the caller has taken the last result
Idle == [op |-> "idle", args |-> <<>>, outcome |-> "ok", value |-> <<>>]

Finish(op, args, s, m, trace, err, value) ==
    /\ ret.op = "idle"
    /\ ops' = ops + 1
    /\ self' = s
    /\ mem' = m
    /\ bus' = trace
    /\ cs' = LineAfter(cs, trace)
    /\ ret' = [op |-> op, args |-> args, outcome |-> Outcome(err), value |-> value]
    /\ pre' = IF op = "toggle_pins" /\ err = ""
              THEN [toggled |-> Given(args), gpio |-> self.gpio,
                    GPIO |-> DevBytes(mem, GPIO, gpio_bytes), prior |-> pre.toggled]
              ELSE NoToggle
    /\ UNCHANGED <<NUM_GPIO, frame>>

\* an operation that raises before it touched anything
Raise(op, args, err) == Finish(op, args, self, mem, <<>>, err, <<>>)

\* an operation that ends with one whole-register write w
FinishWrite(op, args, w) == Finish(op, args, w.self, w.mem, w.bus, w.err, <<>>)

(***************************************************************************)
(* The pin-level setters.                                                  *)
(***************************************************************************)
setup_pins(pins, fault) ==
    IF ~AllValid(KeysOf(pins)) THEN Raise("setup_pins", pins, "ValueError")
    ELSE LET l == setup_loop(self.iodir, pins)
             s2 == [self EXCEPT !.iodir = l.buf]
         IN  IF l.err # ""
             THEN Finish("setup_pins", pins, s2, mem, <<>>, l.err, <<>>)
             ELSE FinishWrite("setup_pins", pins, write_iodir(s2, mem, None, fault))

setup(pin, value, fault) == setup_pins(<< <<pin, value>> >>, fault)

\* output_pins that writes GPIO once per pin of the mapping
output_pins_write_each(pins, fault) ==
    IF ~AllValid(KeysOf(pins)) THEN Raise("output_pins", pins, "ValueError")
    ELSE LET l == level_loop(self.gpio, pins)
             s2 == [self EXCEPT !.gpio = l.buf]
             w == write_gpio(s2, mem, None, fault)
         IN  IF l.err # ""
             THEN Finish("output_pins", pins, s2, mem, <<>>, l.err, <<>>)
             ELSE Finish("output_pins", pins, w.self, w.mem,
                         [i \in 1..(Len(w.bus) * Len(pins)) |-> w.bus[((i - 1) % Len(w.bus)) + 1]],
                         w.err, <<>>)

output_pins(pins, fault) ==
    IF ~AllValid(KeysOf(pins)) THEN Raise("output_pins", pins, "ValueError")
    ELSE LET l == level_loop(self.gpio, pins)
             s2 == [self EXCEPT !.gpio = l.buf]
         IN  IF l.err # ""
             THEN Finish("output_pins", pins, s2, mem, <<>>, l.err, <<>>)
             ELSE FinishWrite("output_pins", pins, write_gpio(s2, mem, None, fault))

output(pin, value, fault) == output_pins(<< <<pin, value>> >>, fault)

\* toggle_pins without its final write_gpio()
toggle_pins_unwritten(pins, fault) ==
    IF ~AllValid(pins) THEN Raise("toggle_pins", pins, "ValueError")
    ELSE LET l == toggle_loop(self.gpio, pins)
         IN  Finish("toggle_pins", pins, [self EXCEPT !.gpio = l.buf], mem, <<>>, l.err, <<>>)

toggle_pins(pins, fault) ==
    IF ~AllValid(pins) THEN Raise("toggle_pins", pins, "ValueError")
    ELSE LET l == toggle_loop(self.gpio, pins)
             s2 == [self EXCEPT !.gpio = l.buf]
         IN  IF l.err # ""
             THEN Finish("toggle_pins", pins, s2, mem, <<>>, l.err, <<>>)
             ELSE FinishWrite("toggle_pins", pins, write_gpio(s2, mem, None, fault))

toggle(pin, fault) == toggle_pins(<<pin>>, fault)

pullup_pins(pins, fault) ==
    IF ~AllValid(KeysOf(pins)) THEN Raise("pullup_pins", pins, "ValueError")
    ELSE LET l == level_loop(self.gppu, pins)
             s2 == [self EXCEPT !.gppu = l.buf]
         IN  IF l.err # ""
             THEN Finish("pullup_pins", pins, s2, mem, <<>>, l.err, <<>>)
             ELSE FinishWrite("pullup_pins", pins, write_gppu(s2, mem, None, fault))

pullup(pin, enabled, fault) == pullup_pins(<< <<pin, enabled>> >>, fault)

polarity_pins(pins, fault) ==
    IF ~AllValid(KeysOf(pins)) THEN Raise("polarity_pins", pins, "ValueError")
    ELSE LET l == level_loop(self.ipol, pins)
             s2 == [self EXCEPT !.ipol = l.buf]
         IN  IF l.err # ""
             THEN Finish("polarity_pins", pins, s2, mem, <<>>, l.err, <<>>)
             ELSE FinishWrite("polarity_pins", pins, write_ipol(s2, mem, None, fault))

polarity(pin, invert, fault) == polarity_pins(<< <<pin, invert>> >>, fault)

(***************************************************************************)
(* input_pins / input.                                                     *)
(***************************************************************************)
\* input_pins that never calls read_gpio()
input_read_stale(pins, read, fault) ==
    LET bad == \E i \in 1..Len(pins) : ~InRange(self.gpio, pins[i])
    IN  [self |-> self, bus |-> <<>>,
         err |-> IF bad THEN "IndexError" ELSE "",
         value |-> IF bad THEN <<>>
                   ELSE [i \in 1..Len(pins) |-> TestBit(self.gpio, pins[i])]]

\* what input_pins does after validation: the object, the transport calls,
\* the exception if any, and the returned list
input_read(pins, read, fault) ==
    LET r == IF read THEN read_gpio(self, mem, fault)
             ELSE [self |-> self, mem |-> mem, bus |-> <<>>, err |-> ""]
        bad == \E i \in 1..Len(pins) : ~InRange(r.self.gpio, pins[i])
    IN  [self |-> r.self, bus |-> r.bus,
         err |-> IF r.err # "" THEN r.err ELSE IF bad THEN "IndexError" ELSE "",
         value |-> IF r.err # "" \/ bad THEN <<>>
                   ELSE [i \in 1..Len(pins) |-> TestBit(r.self.gpio, pins[i])]]

input_pins(pins, read, fault) ==
    LET args == [pins |-> pins, read |-> read]
    IN  IF ~AllValid(pins) THEN Raise("input_pins", args, "ValueError")
        ELSE LET r == input_read(pins, read, fault)
             IN  Finish("input_pins", args, r.self, mem, r.bus, r.err, r.value)

input(pin, read, fault) ==
    LET args == [pins |-> <<pin>>, read |-> read]
    IN  IF ~_validate_pin(pin) THEN Raise("input", args, "ValueError")
        ELSE LET r == input_read(<<pin>>, read, fault)
             IN  Finish("input", args, r.self, mem, r.bus, r.err,
                        IF r.err = "" THEN r.value[1] ELSE FALSE)

(***************************************************************************)
(* set_interrupt.                                                          *)
(***************************************************************************)
\* set_interrupt that clears the INTCON bit when defval is false
interrupt_bits_symmetric(s, pin, interrupt_enable, defval, defval_value) ==
    IF ~InRange(s.gpinten, pin) THEN [self |-> s, err |-> "IndexError"]
    ELSE LET s1 == [s EXCEPT !.gpinten = IF interrupt_enable THEN SetBit(@, pin)
                                         ELSE ClearBit(@, pin)]
         IN  IF ~defval
             THEN IF ~InRange(s1.intcon, pin) THEN [self |-> s1, err |-> "IndexError"]
                  ELSE [self |-> [s1 EXCEPT !.intcon = ClearBit(@, pin)], err |-> ""]
             ELSE IF ~InRange(s1.defval, pin) THEN [self |-> s1, err |-> "IndexError"]
             ELSE LET s2 == [s1 EXCEPT !.defval = IF defval_value THEN SetBit(@, pin)
                                                  ELSE ClearBit(@, pin)]
                  IN  IF ~InRange(s2.intcon, pin)
                      THEN [self |-> s2, err |-> "IndexError"]
                      ELSE [self |-> [s2 EXCEPT !.intcon = SetBit(@, pin)], err |-> ""]

\* the three in-place updates of set_interrupt, in the order of the code;
\* an IndexError leaves the buffers as the earlier statements made them
interrupt_bits(s, pin, interrupt_enable, defval, defval_value) ==
    IF ~InRange(s.gpinten, pin) THEN [self |-> s, err |-> "IndexError"]
    ELSE LET s1 == [s EXCEPT !.gpinten = IF interrupt_enable THEN SetBit(@, pin)
                                         ELSE ClearBit(@, pin)]
         IN  IF ~defval THEN [self |-> s1, err |-> ""]
             ELSE IF ~InRange(s1.defval, pin) THEN [self |-> s1, err |-> "IndexError"]
             ELSE LET s2 == [s1 EXCEPT !.defval = IF defval_value THEN SetBit(@, pin)
                                                  ELSE ClearBit(@, pin)]
                  IN  IF ~InRange(s2.intcon, pin)
                      THEN [self |-> s2, err |-> "IndexError"]
                      ELSE [self |-> [s2 EXCEPT !.intcon = SetBit(@, pin)], err |-> ""]

\* set_interrupt that writes GPINTEN and INTCON but not DEFVAL
interrupt_writes_two(s, m, fault) ==
    LET w1 == write_gpinten(s, m, None, fault)
        w3 == write_intcon(w1.self, w1.mem, None, fault - SpiCalls)
    IN  IF w1.err # "" THEN w1
        ELSE [w3 EXCEPT !.bus = w1.bus \o w3.bus]

\* write_gpinten(); write_defval(); write_intcon(): the first that raises ends the call
interrupt_writes(s, m, fault) ==
    LET w1 == write_gpinten(s, m, None, fault)
        w2 == write_defval(w1.self, w1.mem, None, fault - SpiCalls)
        w3 == write_intcon(w2.self, w2.mem, None, fault - 2 * SpiCalls)
    IN  IF w1.err # "" THEN w1
        ELSE IF w2.err # "" THEN [w2 EXCEPT !.bus = w1.bus \o w2.bus]
        ELSE [w3 EXCEPT !.bus = w1.bus \o w2.bus \o w3.bus]

set_interrupt(pin, interrupt_enable, defval, defval_value, fault) ==
    LET args == [pin |-> pin, interrupt_enable |-> interrupt_enable,
                 defval |-> defval, defval_value |-> defval_value]
    IN  IF ~_validate_pin(pin) THEN Raise("set_interrupt", args, "ValueError")
        ELSE LET b == interrupt_bits(self, pin, interrupt_enable, defval, defval_value)
             IN  IF b.err # ""
                 THEN Finish("set_interrupt", args, b.self, mem, <<>>, b.err, <<>>)
                 ELSE FinishWrite("set_interrupt", args, interrupt_writes(b.self, mem, fault))

(***************************************************************************)
(* read_interrupt_gpio: the pin number decoded from the INTF register.     *)
(***************************************************************************)
\* the inner while loop on one byte i, counting into pin
RECURSIVE scan_byte(_, _)
scan_byte(i, pin) ==
    IF i <= 0 THEN pin
    ELSE IF i % 2 = 1 THEN pin
    ELSE scan_byte(i \div 2, pin + 1)

\* for i in self.intf: the scan, then pin += 8 unless second_Byte is set
RECURSIVE flag_loop(_, _, _)
flag_loop(intf, pin, second_Byte) ==
    IF intf = <<>> THEN pin
    ELSE LET p == scan_byte(Head(intf), pin)
         IN  IF ~second_Byte THEN flag_loop(Tail(intf), p + 8, TRUE)
             ELSE flag_loop(Tail(intf), p, second_Byte)

read_interrupt_gpio(fault) ==
    LET r == readList(mem, INTF, gpio_bytes, fault)
    IN  IF r.err # "" THEN Finish("read_interrupt_gpio", <<>>, self, mem, r.bus, r.err, 0)
        ELSE Finish("read_interrupt_gpio", <<>>, [self EXCEPT !.intf = r.data], mem,
                    r.bus, "", flag_loop(r.data, 0, FALSE))

(***************************************************************************)
(* read_captured_gpio: the dict pin -> state decoded from INTCAP.          *)
(***************************************************************************)
\* for i in range(0, 8): states[i or i + 8] = (s & 1 == 1); s = s >> 1
RECURSIVE bit_loop(_, _, _, _)
bit_loop(s, i, second_Byte, states) ==
    IF i >= 8 THEN states
    ELSE LET key == IF second_Byte THEN i + 8 ELSE i
         IN  bit_loop(s \div 2, i + 1, second_Byte, (key :> (s % 2 = 1)) @@ states)

\* the loop without second_Byte = True
RECURSIVE capture_loop_one_byte(_, _, _)
capture_loop_one_byte(intcap, second_Byte, states) ==
    IF intcap = <<>> THEN states
    ELSE capture_loop_one_byte(Tail(intcap), second_Byte,
                               bit_loop(Head(intcap), 0, second_Byte, states))

\* for s in self.intcap: the bit loop, then second_Byte = True
RECURSIVE capture_loop(_, _, _)
capture_loop(intcap, second_Byte, states) ==
    IF intcap = <<>> THEN states
    ELSE capture_loop(Tail(intcap), TRUE,
                      bit_loop(Head(intcap), 0, second_Byte, states))

read_captured_gpio(fault) ==
    LET r == readList(mem, INTCAP, gpio_bytes, fault)
    IN  IF r.err # "" THEN Finish("read_captured_gpio", <<>>, self, mem, r.bus, r.err, <<>>)
        ELSE Finish("read_captured_gpio", <<>>, [self EXCEPT !.intcap = r.data], mem,
                    r.bus, "", capture_loop(r.data, FALSE, <<>>))

(***************************************************************************)
(* configure: the IOCON bits, set in iocon[0] and iocon[1], then written.  *)
(***************************************************************************)
\* iocon[k] |= 1 << bit  /  iocon[k] &= ~(1 << bit), for one flag
FlagBit(b, flag, bit) == IF flag THEN OrBit(b, bit) ELSE AndNotBit(b, bit)

\* the five if/else blocks applied to one byte of iocon
iocon_byte(b, int_mirror, opendrain, interrupt_polarity, hardware_address, disable_slewrate) ==
    FlagBit(FlagBit(FlagBit(FlagBit(FlagBit(b, interrupt_polarity, 1),
                                    opendrain, 2),
                            hardware_address, 3),
                    disable_slewrate, 4),
            int_mirror, 6)

configure(int_mirror, opendrain, interrupt_polarity, hardware_address, disable_slewrate, fault) ==
    LET args == [int_mirror |-> int_mirror, opendrain |-> opendrain,
                 interrupt_polarity |-> interrupt_polarity,
                 hardware_address |-> hardware_address,
                 disable_slewrate |-> disable_slewrate]
        iocon == self.iocon
    IN  IF Len(iocon) < 1 THEN Raise("configure", args, "IndexError")
        ELSE IF Len(iocon) < 2
        THEN \* iocon[0] took the first statement, iocon[1] raises
             Finish("configure", args,
                    [self EXCEPT !.iocon[1] = FlagBit(@, interrupt_polarity, 1)],
                    mem, <<>>, "IndexError", <<>>)
        ELSE LET new == [iocon EXCEPT
                            ![1] = iocon_byte(@, int_mirror, opendrain, interrupt_polarity,
                                              hardware_address, disable_slewrate),
                            ![2] = iocon_byte(@, int_mirror, opendrain, interrupt_polarity,
                                              hardware_address, disable_slewrate)]
             IN  FinishWrite("configure", args,
                             write_iocon([self EXCEPT !.iocon = new], mem, None, fault))

(***************************************************************************)
(* The whole-register operations called directly, and device-side changes. *)
(***************************************************************************)
\* values a caller hands to write_<register>(value): of the register's length
RegVals == {[i \in 1..gpio_bytes |-> 255],
            [i \in 1..gpio_bytes |-> IF i % 2 = 1 THEN 165 ELSE 90]}

Registers == {"gpio", "iodir", "gppu", "ipol", "intcon", "defval", "gpinten", "iocon"}

write_register(field, value, fault) ==
    LET op == "write_" \o field
        w == CASE field = "gpio" -> write_gpio(self, mem, value, fault)
               [] field = "iodir" -> write_iodir(self, mem, value, fault)
               [] field = "gppu" -> write_gppu(self, mem, value, fault)
               [] field = "ipol" -> write_ipol(self, mem, value, fault)
               [] field = "intcon" -> write_intcon(self, mem, value, fault)
               [] field = "defval" -> write_defval(self, mem, value, fault)
               [] field = "gpinten" -> write_gpinten(self, mem, value, fault)
               [] field = "iocon" -> write_iocon(self, mem, value, fault)
    IN  FinishWrite(op, value, w)

read_gpio_call(fault) ==
    LET r == read_gpio(self, mem, fault)
    IN  Finish("read_gpio", <<>>, r.self, r.mem, r.bus, r.err, <<>>)

\* the device side: pins driven from outside change what GPIO reads, a latched
\* interrupt changes INTF and INTCAP
ExternalChange(register, data) ==
    Finish("external", <<>>, self, DevWrite(mem, register, data), <<>>, "", <<>>)

\* the caller takes the result of the last call
Return ==
    /\ ret.op # "idle"
    /\ ret' = Idle
    /\ bus' = <<>>
    /\ UNCHANGED <<NUM_GPIO, self, mem, cs, pre, ops, frame>>

(***************************************************************************)
(* Construction.                                                           *)
(***************************************************************************)
\* the registers the driver addresses on the device
DevAddrs(n) == 0..((IF n = 16 THEN 18 ELSE 9) + n \div 8 - 1)

\* what the device holds before the driver is constructed
DevFill == {0, 165}

\* MCP.__init__ on a chip with n pins and a device holding m
init_object(n) ==
    [iodir |-> bytearray(n \div 8), ipol |-> bytearray(n \div 8),
     gppu |-> bytearray(n \div 8), gpio |-> bytearray(n \div 8),
     intcon |-> bytearray(n \div 8), intcap |-> bytearray(n \div 8),
     defval |-> bytearray(n \div 8), gpinten |-> bytearray(n \div 8),
     intf |-> bytearray(n \div 8), iocon |-> bytearray(n \div 8)]

\* the state after MCP.__init__ on a chip with NUM_GPIO pins whose registers hold m0
Constructed(m0) ==
    LET w1 == write_iodir(init_object(NUM_GPIO), m0, None, 0)
        w2 == write_gppu(w1.self, w1.mem, None, 0)
    IN  /\ self = w2.self
        /\ mem = w2.mem
        /\ bus = w1.bus \o w2.bus
        /\ cs = LineAfter(1, w1.bus \o w2.bus)
        /\ pre = NoToggle
        /\ ret = [op |-> "__init__", args |-> <<>>, outcome |-> "ok", value |-> <<>>]
        /\ ops = 0
        /\ frame = NoFrame

Init ==
    /\ NUM_GPIO \in {8, 16}
    /\ \E fill \in DevFill : Constructed([a \in DevAddrs(NUM_GPIO) |-> fill])

(***************************************************************************)
(* The arguments the calls are made with.                                  *)
(***************************************************************************)
\* the pins a call names: the first and the last pin, and one on each side
\* outside the range
Pins == {-1, 0, NUM_GPIO - 1, NUM_GPIO}

\* the pins used in mappings and lists of several pins
SomePins == {0, NUM_GPIO - 1, NUM_GPIO}

\* pins in increasing order: a dict has each key once
Increasing(f) == \A i, j \in DOMAIN f : i < j => f[i][1] < f[j][1]

\* dicts of no or 2..MaxPins pins (setup, output, ... make the one-pin calls),
\* with values in V
Mappings(V) ==
    UNION {{f \in [1..k -> SomePins \X V] : Increasing(f)} : k \in {0} \cup 2..MaxPins}

NonDecreasing(f) == \A i, j \in DOMAIN f : i < j => f[i] <= f[j]

\* lists of no or 2..MaxPins pins; a list may name a pin twice
PinLists ==
    UNION {{f \in [1..k -> SomePins] : NonDecreasing(f)} : k \in {0} \cup 2..MaxPins}

\* a caller can make a call when the last one has returned
CanCall == ret.op = "idle" /\ ops < MaxOps

Next ==
    \/ Return
    \/ CanCall /\ \E pin \in Pins, value \in {OUT, INP, 2} : setup(pin, value, 0)
    \/ CanCall /\ \E pins \in Mappings({OUT, INP, 2}) : setup_pins(pins, 0)
    \/ CanCall /\ \E pin \in Pins, value \in BOOLEAN : output(pin, value, 0)
    \/ CanCall /\ \E pins \in Mappings(BOOLEAN) : output_pins(pins, 0)
    \/ CanCall /\ \E pin \in Pins : toggle(pin, 0)
    \/ CanCall /\ \E pins \in PinLists : toggle_pins(pins, 0)
    \/ CanCall /\ \E pin \in Pins, read \in BOOLEAN : input(pin, read, 0)
    \/ CanCall /\ \E pins \in PinLists, read \in BOOLEAN : input_pins(pins, read, 0)
    \/ CanCall /\ \E pin \in Pins, enabled \in BOOLEAN : pullup(pin, enabled, 0)
    \/ CanCall /\ \E pins \in Mappings(BOOLEAN) : pullup_pins(pins, 0)
    \/ CanCall /\ \E pin \in Pins, invert \in BOOLEAN : polarity(pin, invert, 0)
    \/ CanCall /\ \E pins \in Mappings(BOOLEAN) : polarity_pins(pins, 0)
    \/ CanCall /\ \E pin \in Pins, en, dv, dvv \in BOOLEAN : set_interrupt(pin, en, dv, dvv, 0)
    \/ CanCall /\ \E a, c \in BOOLEAN : configure(a, FALSE, c, a, c, 0)
    \/ CanCall /\ \E field \in Registers, value \in {None} \cup {Given(v) : v \in RegVals} :
                    write_register(field, value, 0)
    \/ CanCall /\ read_gpio_call(0)
    \/ CanCall /\ read_interrupt_gpio(0)
    \/ CanCall /\ read_captured_gpio(0)
    \/ CanCall /\ \E register \in {GPIO, INTF, INTCAP}, data \in RegVals :
                    ExternalChange(register, data)

Spec == Init /\ [][Next]_vars

(***************************************************************************)
(* The operations of one register group, called with every pin.            *)
(***************************************************************************)
\* every pin, and one on each side outside the range
AllPins == -1..NUM_GPIO

WholeValues == {None} \cup {Given(v) : v \in RegVals}

\* the direction register
NextDirection ==
    \/ Return
    \/ CanCall /\ \E pin \in AllPins, value \in {OUT, INP, 2} : setup(pin, value, 0)
    \/ CanCall /\ \E pins \in Mappings({OUT, INP, 2}) : setup_pins(pins, 0)
    \/ CanCall /\ \E value \in WholeValues : write_register("iodir", value, 0)

SpecDirection == Init /\ [][NextDirection]_vars

\* the value register
NextValue ==
    \/ Return
    \/ CanCall /\ \E pin \in AllPins, value \in BOOLEAN : output(pin, value, 0)
    \/ CanCall /\ \E pin \in AllPins : toggle(pin, 0)
    \/ CanCall /\ \E pins \in PinLists : toggle_pins(pins, 0)
    \/ CanCall /\ \E pin \in AllPins, read \in BOOLEAN : input(pin, read, 0)
    \/ CanCall /\ \E pins \in PinLists, read \in BOOLEAN : input_pins(pins, read, 0)
    \/ CanCall /\ \E value \in WholeValues : write_register("gpio", value, 0)
    \/ CanCall /\ read_gpio_call(0)
    \/ CanCall /\ \E data \in RegVals : ExternalChange(GPIO, data)

SpecValue == Init /\ [][NextValue]_vars

\* the interrupt registers
NextInterrupt ==
    \/ Return
    \/ CanCall /\ \E pin \in AllPins, en, dv, dvv \in BOOLEAN : set_interrupt(pin, en, dv, dvv, 0)
    \/ CanCall /\ \E field \in {"intcon", "defval", "gpinten"}, value \in WholeValues :
                    write_register(field, value, 0)

SpecInterrupt == Init /\ [][NextInterrupt]_vars

\* the configuration register, with every combination of the five flags
NextConfigure ==
    \/ Return
    \/ CanCall /\ \E a, b, c, d, e \in BOOLEAN : configure(a, b, c, d, e, 0)
    \/ CanCall /\ \E value \in WholeValues : write_register("iocon", value, 0)

SpecConfigure == Init /\ [][NextConfigure]_vars

(***************************************************************************)
(* The operations on a transport that can fail: the spi call with index    *)
(* fault raises OSError (0: none does).  set_interrupt makes three         *)
(* transactions, so nine spi calls.                                        *)
(***************************************************************************)
Faults == 0..SpiCalls

NextFault ==
    \/ Return
    \/ CanCall /\ \E value \in {OUT, INP}, fault \in Faults : setup(0, value, fault)
    \/ CanCall /\ \E value \in BOOLEAN, fault \in Faults : output(0, value, fault)
    \/ CanCall /\ \E fault \in Faults : toggle(NUM_GPIO - 1, fault)
    \/ CanCall /\ \E fault \in Faults : pullup(0, TRUE, fault)
    \/ CanCall /\ \E fault \in Faults : polarity(0, TRUE, fault)
    \/ CanCall /\ \E read \in BOOLEAN, fault \in Faults : input(0, read, fault)
    \/ CanCall /\ \E dv \in BOOLEAN, fault \in 0..(3 * SpiCalls) :
                    set_interrupt(0, TRUE, dv, TRUE, fault)
    \/ CanCall /\ \E fault \in Faults : configure(FALSE, FALSE, TRUE, FALSE, FALSE, fault)
    \/ CanCall /\ \E field \in {"gpio", "iocon"}, value \in WholeValues, fault \in Faults :
                    write_register(field, value, fault)
    \/ CanCall /\ \E fault \in Faults : read_gpio_call(fault)
    \/ CanCall /\ \E fault \in Faults : read_interrupt_gpio(fault)
    \/ CanCall /\ \E fault \in Faults : read_captured_gpio(fault)

SpecFault == Init /\ [][NextFault]_vars

(***************************************************************************)
(* The whole-register writes called with a value of any length: no         *)
(* write_<register> looks at the length of the value it is given.          *)
(***************************************************************************)
\* values shorter than the register, of its length, and longer
AnyLength == {[i \in 1..n |-> 255] : n \in 0..(gpio_bytes + 1)}

NextLength ==
    \/ Return
    \/ CanCall /\ \E field \in Registers, value \in {None} \cup {Given(v) : v \in AnyLength} :
                    write_register(field, value, 0)
    \/ CanCall /\ \E pin \in {0, NUM_GPIO - 1}, value \in BOOLEAN : output(pin, value, 0)
    \/ CanCall /\ \E pin \in {0, NUM_GPIO - 1} : input(pin, FALSE, 0)
    \/ CanCall /\ configure(FALSE, FALSE, FALSE, FALSE, FALSE, 0)
    \/ CanCall /\ read_gpio_call(0)
    \/ CanCall /\ read_interrupt_gpio(0)
    \/ CanCall /\ read_captured_gpio(0)

SpecLength == Init /\ [][NextLength]_vars

(***************************************************************************)
(* The decoders, on every content of the INTF and INTCAP registers: the    *)
(* device has latched an interrupt before the driver is constructed.       *)
(***************************************************************************)
Latched(content) ==
    DevWrite(DevWrite([a \in DevAddrs(NUM_GPIO) |-> 0], INTF, content), INTCAP, content)

\* one byte runs over every value while the others take the border values
BorderBytes == {0, 1, 128, 165, 255}

Contents ==
    {c \in [1..gpio_bytes -> Byte] : Cardinality({i \in 1..gpio_bytes : c[i] \notin BorderBytes}) <= 1}

InitDecode ==
    /\ NUM_GPIO \in {8, 16}
    /\ \E content \in Contents : Constructed(Latched(content))

NextDecode ==
    \/ Return
    \/ CanCall /\ read_interrupt_gpio(0)
    \/ CanCall /\ read_captured_gpio(0)

SpecDecode == InitDecode /\ [][NextDecode]_vars

(***************************************************************************)
(* read_interrupt_gpio followed statement by statement, on every content   *)
(* of INTF above: the read, the for loop over the bytes, the while loop    *)
(* over the bits of one byte, and the statements after the while loop.     *)
(***************************************************************************)
\* a while loop whose body changes neither i nor pin
while_step_stuck(f) ==
    IF f.i <= 0 THEN [f EXCEPT !.pc = "after"]
    ELSE IF f.i % 2 = 1 THEN [f EXCEPT !.pc = "after"]
    ELSE f

\* one pass of `while True`: break on i <= 0 or on i & 1 == 1, else
\* i = i >> 1; pin += 1
while_step(f) ==
    IF f.i <= 0 THEN [f EXCEPT !.pc = "after"]
    ELSE IF f.i % 2 = 1 THEN [f EXCEPT !.pc = "after"]
    ELSE [f EXCEPT !.i = f.i \div 2, !.pin = f.pin + 1]

\* self.intf = self.readList(...); pin = 0; second_Byte = False
scan_call ==
    LET r == readList(mem, INTF, gpio_bytes, 0)
    IN  /\ CanCall
        /\ frame.pc = "none"
        /\ ops' = ops + 1
        /\ self' = [self EXCEPT !.intf = r.data]
        /\ bus' = r.bus
        /\ cs' = LineAfter(cs, r.bus)
        /\ ret' = [op |-> "read_interrupt_gpio", args |-> <<>>, outcome |-> "running",
                   value |-> <<>>]
        /\ pre' = NoToggle
        /\ frame' = [pc |-> "for", rest |-> r.data, i |-> 0, pin |-> 0,
                     second_Byte |-> FALSE]
        /\ UNCHANGED <<NUM_GPIO, mem>>

\* for i in self.intf: the next byte, or on to `return pin` when there is none
scan_for ==
    /\ frame.pc = "for"
    /\ frame' = IF frame.rest = <<>>
                THEN [frame EXCEPT !.pc = "return"]
                ELSE [frame EXCEPT !.pc = "while", !.i = Head(frame.rest),
                                   !.rest = Tail(frame.rest)]
    /\ UNCHANGED <<NUM_GPIO, self, mem, cs, bus, ret, pre, ops>>

scan_while ==
    /\ frame.pc = "while"
    /\ frame' = while_step(frame)
    /\ UNCHANGED <<NUM_GPIO, self, mem, cs, bus, ret, pre, ops>>

\* if not second_Byte: pin += 8; second_Byte = True
scan_after ==
    /\ frame.pc = "after"
    /\ frame' = IF ~frame.second_Byte
                THEN [frame EXCEPT !.pc = "for", !.pin = frame.pin + 8, !.second_Byte = TRUE]
                ELSE [frame EXCEPT !.pc = "for"]
    /\ UNCHANGED <<NUM_GPIO, self, mem, cs, bus, ret, pre, ops>>

\* return pin: the caller takes frame.pin
scan_return ==
    /\ frame.pc = "return"
    /\ frame' = NoFrame
    /\ ret' = Idle
    /\ bus' = <<>>
    /\ UNCHANGED <<NUM_GPIO, self, mem, cs, pre, ops>>

NextScan ==
    \/ frame.pc = "none" /\ Return
    \/ scan_call
    \/ scan_for
    \/ scan_while
    \/ scan_after
    \/ scan_return

\* the interpreter goes on to the next statement of a call that is running;
\* every statement changes frame
SpecScan ==
    InitDecode /\ [][NextScan]_vars /\ WF_frame(scan_for \/ scan_while \/ scan_after \/ scan_return)

(***************************************************************************)
(* Vocabulary of the properties.  A property of the steps is stated of the *)
(* steps that change ops: every call and every device-side change does.    *)
(***************************************************************************)
\* the content of a device register of the chip, as the driver addresses it
Dev(m, register) == DevBytes(m, register, gpio_bytes)

ValidPins == 0..(NUM_GPIO - 1)

\* bit p of a register content: bit p % 8 of byte p / 8
PinBit(buf, p) == (buf[(p \div 8) + 1] \div (2 ^ (p % 8))) % 2

Returned(op) == ret.op = op /\ ret.outcome = "ok"

\* the write transactions of a trace of complete transactions, in order
Transactions(trace) ==
    [i \in 1..(Len(trace) \div 5) |->
        [select |-> trace[5 * i - 4], control |-> trace[5 * i - 3].data[1],
         register |-> trace[5 * i - 2].data[1], call |-> trace[5 * i - 1].call,
         data |-> trace[5 * i - 1].data, deselect |-> trace[5 * i]]]

WriteOf(register, data) ==
    [select |-> Ev("cs", <<0>>), control |-> 64, register |-> register,
     call |-> "write", data |-> data, deselect |-> Ev("cs", <<1>>)]

(***************************************************************************)
(* C1.  Write-through: when a setter has returned successfully, the shadow *)
(* buffer of every register it manages equals the device register.         *)
(***************************************************************************)
C1_WriteThrough ==
    ret.outcome = "ok" =>
        /\ ret.op = "setup_pins" => self.iodir = Dev(mem, IODIR)
        /\ ret.op \in {"output_pins", "toggle_pins"} => self.gpio = Dev(mem, GPIO)
        /\ ret.op = "pullup_pins" => self.gppu = Dev(mem, GPPU)
        /\ ret.op = "polarity_pins" => self.ipol = Dev(mem, IPOL)
        /\ ret.op = "set_interrupt" =>
              /\ self.gpinten = Dev(mem, GPINTEN)
              /\ self.defval = Dev(mem, DEFVAL)
              /\ self.intcon = Dev(mem, INTCON)
        /\ ret.op = "configure" => self.iocon = Dev(mem, IOCON)

\* a setter returned after an earlier operation, with a register that is not
\* all zero
C1_Witness ==
    /\ ops = 2
    /\ Returned("toggle_pins")
    /\ Len(ret.args) = 2
    /\ self.gpio # bytearray(gpio_bytes)

(***************************************************************************)
(* C2.  Invalid pin rejection: a pin-accepting call that names a pin       *)
(* outside 0..NUM_GPIO-1, at any place of its mapping or list, raises      *)
(* ValueError with no shadow buffer altered and no transport call made.    *)
(***************************************************************************)
\* the pins a call was made with
PinsOf(r) ==
    IF r.op \in {"setup_pins", "output_pins", "pullup_pins", "polarity_pins"}
    THEN KeysOf(r.args)
    ELSE IF r.op = "toggle_pins" THEN r.args
    ELSE IF r.op \in {"input_pins", "input"} THEN r.args.pins
    ELSE IF r.op = "set_interrupt" THEN <<r.args.pin>>
    ELSE <<>>

NamesInvalidPin(r) == \E i \in 1..Len(PinsOf(r)) : PinsOf(r)[i] \notin ValidPins

C2_InvalidPinRejected ==
    [][NamesInvalidPin(ret') =>
          /\ ret'.outcome = "ValueError"
          /\ self' = self
          /\ mem' = mem
          /\ bus' = <<>>
          /\ cs' = cs]_ops

\* a mapping whose first pin is valid and whose second is NUM_GPIO was rejected,
\* on an object whose direction buffer is not all zero
C2_Witness ==
    /\ ret.op = "setup_pins"
    /\ ret.outcome = "ValueError"
    /\ Len(ret.args) = 2
    /\ ret.args[1][1] \in ValidPins
    /\ ret.args[2][1] = NUM_GPIO
    /\ self.iodir # bytearray(gpio_bytes)

(***************************************************************************)
(* C3.  Interrupt-flag decode: with at least one bit set in the INTF       *)
(* register, read_interrupt_gpio returns the index of the lowest set bit,  *)
(* bytes low to high and bits least-significant first.                     *)
(***************************************************************************)
AnyBit(buf) == \E p \in 0..(8 * Len(buf) - 1) : PinBit(buf, p) = 1

LowestSetBit(buf) ==
    CHOOSE p \in 0..(8 * Len(buf) - 1) :
        /\ PinBit(buf, p) = 1
        /\ \A q \in 0..(p - 1) : PinBit(buf, q) = 0

C3_FirstSetBit ==
    (Returned("read_interrupt_gpio") /\ AnyBit(self.intf)) =>
        ret.value = LowestSetBit(self.intf)

(***************************************************************************)
(* C4.  Captured-state decode: read_captured_gpio returns a mapping whose  *)
(* keys are exactly the pins 0..NUM_GPIO-1, pin p being true iff bit p % 8 *)
(* of byte p / 8 of the INTCAP register is set.                            *)
(***************************************************************************)
C4_CapturedState ==
    Returned("read_captured_gpio") =>
        /\ self.intcap = Dev(mem, INTCAP)
        /\ DOMAIN ret.value = ValidPins
        /\ \A p \in ValidPins : ret.value[p] = (PinBit(self.intcap, p) = 1)

\* a 16-pin register with set and clear bits in both bytes was decoded
C4_Witness ==
    /\ Returned("read_captured_gpio")
    /\ NUM_GPIO = 16
    /\ \E p, q \in 0..7 : ret.value[p] /\ ~ret.value[q]
    /\ \E p, q \in 8..15 : ret.value[p] /\ ~ret.value[q]

(***************************************************************************)
(* C5.  Initial state: after construction the direction buffer is all ones *)
(* (every pin an input), every other shadow buffer all zero, and IODIR and *)
(* GPPU on the device hold the direction and pull-up buffers.              *)
(***************************************************************************)
AllOnes(n) == [i \in 1..n |-> 255]

C5_InitialState ==
    ret.op = "__init__" =>
        /\ self.iodir = AllOnes(gpio_bytes)
        /\ \A f \in DOMAIN self \ {"iodir"} : self[f] = bytearray(gpio_bytes)
        /\ Dev(mem, IODIR) = self.iodir
        /\ Dev(mem, GPPU) = self.gppu

(***************************************************************************)
(* C6.  Direction round-trip: after setup_pins has returned, every pin of  *)
(* the mapping has the requested direction bit in the shadow direction     *)
(* buffer and every other pin has the bit it had before the call.          *)
(***************************************************************************)
\* the value a mapping gives a pin
ValueAt(pins, p) == pins[CHOOSE i \in 1..Len(pins) : pins[i][1] = p][2]

Mentions(pins, p) == \E i \in 1..Len(pins) : pins[i][1] = p

C6_DirectionRoundTrip ==
    [][(ret'.op = "setup_pins" /\ ret'.outcome = "ok") =>
          \A p \in ValidPins :
              PinBit(self'.iodir, p) =
                  IF Mentions(ret'.args, p) THEN ValueAt(ret'.args, p)
                  ELSE PinBit(self.iodir, p)]_ops

\* a mapping with an input and an output pin was applied to a direction buffer
\* that has other pins set
C6_Witness ==
    /\ Returned("setup_pins")
    /\ Len(ret.args) = 2
    /\ ret.args[1][2] # ret.args[2][2]
    /\ \E p \in ValidPins : ~Mentions(ret.args, p) /\ PinBit(self.iodir, p) = 1
    /\ \E p \in ValidPins : ~Mentions(ret.args, p) /\ PinBit(self.iodir, p) = 0

(***************************************************************************)
(* C7.  Toggle twice.  As claimed: two successive toggles of one pin leave *)
(* the shadow value buffer and the device value register with the content  *)
(* each had before the first toggle.                                       *)
(***************************************************************************)
\* the step is the second of two successive successful toggles of the same pin
SecondToggle ==
    /\ pre.toggled.given
    /\ ret'.op = "toggle_pins"
    /\ ret'.outcome = "ok"
    /\ Len(ret'.args) = 1
    /\ pre.toggled.data = ret'.args

C7_ToggleTwiceRestoresBoth ==
    [][SecondToggle => (self'.gpio = pre.gpio /\ Dev(mem', GPIO) = pre.GPIO)]_ops

(***************************************************************************)
(* C7, amended.  Two successive toggles of one pin leave the shadow value  *)
(* buffer with the content it had before the first toggle, and the device  *)
(* value register with that same content (the shadow's, which the device   *)
(* need not have held before the first toggle).                            *)
(***************************************************************************)
C7_ToggleTwice ==
    [][SecondToggle => (self'.gpio = pre.gpio /\ Dev(mem', GPIO) = pre.gpio)]_ops

\* a pin was toggled twice in a row
C7_Witness ==
    /\ Returned("toggle_pins")
    /\ Len(ret.args) = 1
    /\ pre.prior.given
    /\ pre.prior.data = ret.args

(***************************************************************************)
(* C8.  input_pins / input: with read false no transport call is made and  *)
(* nothing changes; with read true the shadow value buffer becomes the     *)
(* device's GPIO register; either way the call returns, per requested pin  *)
(* and in order, the pin's bit of the shadow value buffer after the call.  *)
(***************************************************************************)
ReadOf(register, data) ==
    [select |-> Ev("cs", <<0>>), control |-> 65, register |-> register,
     call |-> "readinto", data |-> data, deselect |-> Ev("cs", <<1>>)]

C8_InputRefresh ==
    [][(ret'.op \in {"input_pins", "input"} /\ ret'.outcome = "ok") =>
          /\ ~ret'.args.read => (bus' = <<>> /\ self' = self /\ mem' = mem)
          /\ ret'.args.read =>
                /\ self' = [self EXCEPT !.gpio = Dev(mem, GPIO)]
                /\ mem' = mem
                /\ Transactions(bus') = <<ReadOf(GPIO, Dev(mem, GPIO))>>
          /\ ret'.op = "input_pins" =>
                /\ Len(ret'.value) = Len(ret'.args.pins)
                /\ \A i \in 1..Len(ret'.args.pins) :
                      ret'.value[i] = (PinBit(self'.gpio, ret'.args.pins[i]) = 1)
          /\ ret'.op = "input" =>
                ret'.value = (PinBit(self'.gpio, ret'.args.pins[1]) = 1)]_ops

\* two pins were read with a refresh that changed the shadow value buffer,
\* and one of them is high
C8_Witness ==
    /\ Returned("input_pins")
    /\ ret.args.read
    /\ Len(ret.args.pins) = 2
    /\ \E i \in 1..2 : ret.value[i]
    /\ self.gpio # bytearray(gpio_bytes)

(***************************************************************************)
(* C9.  set_interrupt: the GPINTEN bit of the pin becomes interrupt_enable; *)
(* with defval the INTCON bit is set and the DEFVAL bit becomes            *)
(* defval_value; and GPINTEN, DEFVAL and INTCON are all written to the     *)
(* device, whatever changed.                                               *)
(***************************************************************************)
Flag(b) == IF b THEN 1 ELSE 0

C9_SetInterrupt ==
    [][(ret'.op = "set_interrupt" /\ ret'.outcome = "ok") =>
          /\ PinBit(self'.gpinten, ret'.args.pin) = Flag(ret'.args.interrupt_enable)
          /\ ret'.args.defval =>
                /\ PinBit(self'.intcon, ret'.args.pin) = 1
                /\ PinBit(self'.defval, ret'.args.pin) = Flag(ret'.args.defval_value)
          /\ Transactions(bus') = << WriteOf(GPINTEN, self'.gpinten),
                                     WriteOf(DEFVAL, self'.defval),
                                     WriteOf(INTCON, self'.intcon) >>]_ops

\* the first call on a new object disabled a pin that was not enabled: no bit
\* changed, and the three registers were written all the same
C9_Witness ==
    /\ Returned("set_interrupt")
    /\ ops = 1
    /\ ~ret.args.interrupt_enable /\ ~ret.args.defval
    /\ Len(bus) = 15

Packed(a) ==
    2 * Flag(a.interrupt_polarity) + 4 * Flag(a.opendrain) + 8 * Flag(a.hardware_address)
        + 16 * Flag(a.disable_slewrate) + 64 * Flag(a.int_mirror)

C11_SameByteBoth ==
    [][(ret'.op = "configure" /\ ret'.outcome = "ok") =>
          Transactions(bus') = <<WriteOf(IOCON, <<Packed(ret'.args), Packed(ret'.args)>>)>>]_ops

(***************************************************************************)
(* C12.  SEQOP (bit 5) and BANK (bit 7) stay 0: whatever operations came   *)
(* before, every byte configure writes to IOCON has bits 5 and 7 clear.    *)
(***************************************************************************)
C12_SeqopBankClear ==
    [][ret'.op = "configure" =>
          \A i \in 1..Len(bus') :
              (bus'[i].call = "write" /\ i > 3 /\ bus'[i - 1].data = <<IOCON>>) =>
                  \A k \in 1..Len(bus'[i].data) :
                      /\ (bus'[i].data[k] \div 32) % 2 = 0
                      /\ (bus'[i].data[k] \div 128) % 2 = 0]_ops

(***************************************************************************)
(* C13.  Chip-select release: whenever an operation has returned or raised *)
(* the device is deselected; in the transport calls of the operation every *)
(* spi call lies between a select and the deselect that follows it, also   *)
(* when an spi call raised; and a transaction cut short by a raising call  *)
(* is the last of the operation, which ends with OSError: no retry.        *)
(***************************************************************************)
\* the trace selects only a deselected device, deselects only a selected one,
\* makes spi calls only on a selected one, and ends deselected
RECURSIVE Scoped(_, _)
Scoped(line, trace) ==
    IF trace = <<>> THEN line = 1
    ELSE IF Head(trace).call = "cs"
    THEN Head(trace).data[1] # line /\ Scoped(Head(trace).data[1], Tail(trace))
    ELSE line = 0 /\ Scoped(line, Tail(trace))

\* the transaction selected at place i of the trace has k - 1 < SpiCalls spi calls
CutShort(trace, i, k) ==
    /\ trace[i] = Ev("cs", <<0>>)
    /\ i + k <= Len(trace)
    /\ trace[i + k].call = "cs"

C13_ChipSelectReleased ==
    /\ cs = 1
    /\ Scoped(1, bus)
    /\ \A i \in 1..Len(bus), k \in 1..SpiCalls :
          CutShort(bus, i, k) => (i + k = Len(bus) /\ ret.outcome = "OSError")
    /\ ret.outcome = "OSError" => bus # <<>>

\* set_interrupt, called as the second operation, raised OSError in the
\* register-address write of its second transaction
C13_Witness ==
    /\ ret.op = "set_interrupt"
    /\ ret.outcome = "OSError"
    /\ Len(bus) = 9
    /\ CutShort(bus, 6, 3)
    /\ ops = 2
    /\ cs = 1

(***************************************************************************)
(* C14.  Single batched write: a multi-pin setter called with valid pins   *)
(* makes exactly one device transaction, a write of its register, with the *)
(* buffer as all the mutations of the call left it, and no read.           *)
(***************************************************************************)
\* the shadow buffer and the register of a multi-pin setter
SetterField(op) ==
    CASE op = "setup_pins" -> "iodir"
      [] op \in {"output_pins", "toggle_pins"} -> "gpio"
      [] op = "pullup_pins" -> "gppu"
      [] op = "polarity_pins" -> "ipol"

SetterRegister(op) ==
    CASE op = "setup_pins" -> IODIR
      [] op \in {"output_pins", "toggle_pins"} -> GPIO
      [] op = "pullup_pins" -> GPPU
      [] op = "polarity_pins" -> IPOL

MultiPinSetters == {"setup_pins", "output_pins", "toggle_pins", "pullup_pins", "polarity_pins"}

\* the bit a mapping entry asks for: setup_pins takes IN / OUT, the others a boolean
Asked(op, value) == IF op = "setup_pins" THEN value ELSE Flag(value)

C14_SingleBatchedWrite ==
    [][(ret'.op \in MultiPinSetters /\ ret'.outcome = "ok") =>
          /\ Transactions(bus') =
                <<WriteOf(SetterRegister(ret'.op), self'[SetterField(ret'.op)])>>
          /\ Len(bus') = 5
          /\ ret'.op # "toggle_pins" =>
                \A i \in 1..Len(ret'.args) :
                    PinBit(bus'[4].data, ret'.args[i][1]) = Asked(ret'.op, ret'.args[i][2])]_ops

\* output_pins set one pin and cleared another in one call, on a value buffer
\* an earlier operation had changed
C14_Witness ==
    /\ Returned("output_pins")
    /\ Len(ret.args) = 2
    /\ ret.args[1][2] /\ ~ret.args[2][2]
    /\ ops = 2
    /\ Len(bus) = 5
    /\ \E p \in ValidPins : ~Mentions(ret.args, p) /\ PinBit(self.gpio, p) = 1

(***************************************************************************)
(* C15.  Shadow buffer length: in every reachable state, the whole-        *)
(* register writes with an explicit value included, every shadow buffer    *)
(* has gpio_bytes bytes.                                                   *)
(***************************************************************************)
C15_BufferLength == \A f \in DOMAIN self : Len(self[f]) = gpio_bytes

(***************************************************************************)
(* C16.  configure on every variant: on the 8-pin and on the 16-pin chip,  *)
(* configure with any flags returns without an exception and leaves the    *)
(* IOCON buffer with gpio_bytes bytes.                                     *)
(***************************************************************************)
C16_ConfigureEveryVariant ==
    ret.op = "configure" => (ret.outcome = "ok" /\ Len(self.iocon) = gpio_bytes)

(***************************************************************************)
(* C17.  No dirty state after a rejected direction value: setup_pins with  *)
(* valid pins and a value that is neither IN nor OUT raises ValueError,    *)
(* and the direction buffer, equal to the device's IODIR before the call,  *)
(* is still equal to it after.                                             *)
(***************************************************************************)
C17_NoDirtyDirection ==
    [][(/\ ret'.op = "setup_pins"
        /\ AllValid(KeysOf(ret'.args))
        /\ \E i \in 1..Len(ret'.args) : ret'.args[i][2] \notin {OUT, INP}
        /\ self.iodir = Dev(mem, IODIR)) =>
          (ret'.outcome = "ValueError" /\ self'.iodir = Dev(mem', IODIR))]_ops

(***************************************************************************)
(* C18.  Register and bit isolation: a pin-level setter changes only the   *)
(* bits of the pins it is called with, in the shadow buffers of its own    *)
(* registers; the bits of every other pin, every other shadow buffer and   *)
(* the device register of every other buffer stay as they were.            *)
(***************************************************************************)
\* the shadow buffers a pin-level setter manages
OwnFields(op) ==
    CASE op = "setup_pins" -> {"iodir"}
      [] op \in {"output_pins", "toggle_pins"} -> {"gpio"}
      [] op = "pullup_pins" -> {"gppu"}
      [] op = "polarity_pins" -> {"ipol"}
      [] op = "set_interrupt" -> {"gpinten", "defval", "intcon"}

\* the device register of a shadow buffer
RegisterOf(f) ==
    CASE f = "iodir" -> IODIR [] f = "ipol" -> IPOL [] f = "gppu" -> GPPU
      [] f = "gpio" -> GPIO [] f = "intcon" -> INTCON [] f = "intcap" -> INTCAP
      [] f = "defval" -> DEFVAL [] f = "gpinten" -> GPINTEN [] f = "intf" -> INTF
      [] f = "iocon" -> IOCON

PinSetters == MultiPinSetters \cup {"set_interrupt"}

C18_Isolation ==
    [][(ret'.op \in PinSetters /\ ret'.outcome = "ok") =>
          /\ \A f \in OwnFields(ret'.op), p \in ValidPins :
                (\A i \in 1..Len(PinsOf(ret')) : PinsOf(ret')[i] # p) =>
                    PinBit(self'[f], p) = PinBit(self[f], p)
          /\ \A f \in DOMAIN self \ OwnFields(ret'.op) :
                /\ self'[f] = self[f]
                /\ Dev(mem', RegisterOf(f)) = Dev(mem, RegisterOf(f))]_ops

(***************************************************************************)
(* C19.  Transaction shape: the transport calls of every operation are a   *)
(* sequence of register accesses, each exactly cs(0), write of the one     *)
(* byte address << 1 with the read/write bit (0 to write, 1 to read),      *)
(* write of the one register-address byte, then a write of the data bytes  *)
(* or a read of gpio_bytes bytes, then cs(1).                              *)
(***************************************************************************)
RegisterAddresses == {RegisterOf(f) : f \in DOMAIN self}

C19_TransactionShape ==
    /\ Len(bus) % 5 = 0
    /\ \A i \in 1..(Len(bus) \div 5) :
          /\ bus[5 * i - 4] = Ev("cs", <<0>>)
          /\ bus[5 * i - 3].call = "write" /\ Len(bus[5 * i - 3].data) = 1
          /\ bus[5 * i - 2].call = "write" /\ Len(bus[5 * i - 2].data) = 1
          /\ bus[5 * i - 2].data[1] \in RegisterAddresses
          /\ \/ /\ bus[5 * i - 1].call = "write"
                /\ bus[5 * i - 3].data[1] = 2 * address
             \/ /\ bus[5 * i - 1].call = "readinto"
                /\ bus[5 * i - 3].data[1] = 2 * address + 1
                /\ Len(bus[5 * i - 1].data) = gpio_bytes
          /\ bus[5 * i] = Ev("cs", <<1>>)

\* a 16-pin chip's INTCAP was read in one transaction of two bytes
C19_Witness ==
    /\ Returned("read_captured_gpio")
    /\ NUM_GPIO = 16
    /\ Len(bus) = 5
    /\ bus[2].data = <<65>>
    /\ bus[3].data = <<INTCAP>>
    /\ bus[4].call = "readinto" /\ Len(bus[4].data) = 2

(***************************************************************************)
(* C20.  read_interrupt_gpio terminates: on both variants and for every    *)
(* content of INTF, all zero included, a call that has started returns;    *)
(* the while loop over the bits of a byte always exits.                    *)
(***************************************************************************)
C20_ScanTerminates ==
    /\ (frame.pc \notin {"none", "return"}) ~> (frame.pc = "return")
    /\ (frame.pc = "while") ~> (frame.pc = "after")

\* the call reached its return on a 16-pin chip whose INTF has only bit 7 set in
\* each byte, the longest scan, with the value the loops compute in one go
C20_Witness ==
    /\ frame.pc = "return"
    /\ ret.op = "read_interrupt_gpio"
    /\ self.intf = <<128, 128>>
    /\ frame.pin = 22
    /\ frame.pin = flag_loop(self.intf, 0, FALSE)

====
